---- MODULE Spec2Model ----
(***************************************************************************)
(* Model of the gazette extractor: gazette/utils.py (html_to_text,         *)
(* extract_to_excel, merge_chinese_lines, classify_segment,                *)
(* extract_pdf_to_excel) and gazette/pipeline.py (process_single_file,     *)
(* process_uploaded_files).                                                *)
(*                                                                         *)
(* A Python str is a sequence of one-character strings; an optional value  *)
(* is None == <<>> or Some(x) == <<x>>; a worksheet is a function from the *)
(* row numbers written so far (header row 1 left out) to rows.             *)
(*                                                                         *)
(* A character outside ASCII is one string holding its name:               *)
(*   "di" U+7B2C  "tiao" U+689D  "yi" U+4E00  "er" U+4E8C  "san" U+4E09    *)
(*   "si" U+56DB  "wu" U+4E94  "liu" U+516D  "qi" U+4E03  "ba" U+516B      *)
(*   "jiu" U+4E5D  "shi" U+5341  "ling" U+96F6  "ling0" U+3007             *)
(*   "bai" U+767E  "qian" U+5343  "nei" U+5167  "rong" U+5BB9              *)
(*   "ye" U+9801  "biao" U+6A19  "ti" U+984C  "xiang" U+9805  "mu" U+76EE  *)
(*   "wen" U+6587  "dun" U+3001 (ideographic comma)  "ju" U+3002 (full     *)
(*   stop)  and "fw(" "fw)" "fw." "fw!" "fw?" "fw;" "fw:" the full-width   *)
(*   forms U+FF08 U+FF09 U+FF0E U+FF01 U+FF1F U+FF1B U+FF1A.               *)
(***************************************************************************)
EXTENDS Integers, Sequences, FiniteSets, TLC

VARIABLES
    pc,                  \* position of the running function
    \* ---- html_to_text, run stage by stage (SpecHtml)
    html,                \* the argument
    text,                \* the local being rewritten
    \* ---- extract_to_excel (Spec)
    records,             \* root.findall("Record"): the records of the XML file
    rec,                 \* position of the record loop (row_idx - 1)
    html_text,
    split_lines,         \* html_text.split("\n")
    line_pos,            \* enumerate position of the Lines loop (line_no)
    non_empty_lines,
    scan_pos,            \* position of the article loop in non_empty_lines
    ws_gazette, ws_lines, ws_articles,
    lines_row_idx, articles_row_idx,
    current_article_no, current_title_line, current_start_line,
    current_lines, last_line_no,
    \* ---- merge_chinese_lines (SpecMerge, SpecPdf)
    lines,               \* the argument
    merge_pos,           \* position of the for loop
    buffer,
    yielded,             \* the paragraphs yielded so far
    \* ---- extract_pdf_to_excel (SpecPdf)
    pages,               \* page.extract_text() of every page
    page_number,
    seg_no,
    ws_pdf, row_idx,
    \* ---- classify_segment called on its own (SpecClassify)
    cls_text, cls_page, cls_seg_no, cls_result,
    \* ---- process_uploaded_files and upload_xml (SpecBatch)
    entry,               \* "process_uploaded_files" or "upload_xml"
    files,               \* the uploaded files
    file_pos,            \* position of the for loop
    errors, seen_names,
    zip_entries,         \* arcnames written to the result ZIP, in order
    output_path, download_name,
    outcome              \* how the call ended

htmlVars == <<html, text>>
xmlVars == <<records, rec, html_text, split_lines, line_pos, non_empty_lines,
             scan_pos, ws_gazette, ws_lines, ws_articles, lines_row_idx,
             articles_row_idx, current_article_no, current_title_line,
             current_start_line, current_lines, last_line_no>>
mergeVars == <<lines, merge_pos, buffer, yielded>>
pdfVars == <<pages, page_number, seg_no, ws_pdf, row_idx>>
clsVars == <<cls_text, cls_page, cls_seg_no, cls_result>>
batchVars == <<entry, files, file_pos, errors, seen_names, zip_entries,
               output_path, download_name, outcome>>
vars == <<pc, htmlVars, xmlVars, mergeVars, pdfVars, clsVars, batchVars>>

----------------------------------------------------------------------------
(* Bounds of the enumerated inputs. *)

MaxHtmlTokens == 4       \* tokens of an html_to_text argument
MaxRecordLines == 4     \* lines of the HTMLContent of a single record
MaxPairLines == 2       \* lines of each HTMLContent of a two-record file
MaxLines == 4            \* lines handed to merge_chinese_lines
MaxPageLines == 4        \* text lines of a PDF page
MaxTextLen == 3          \* characters of a classify_segment text
MaxSegNo == 4            \* seg_no handed to classify_segment
MaxFiles == 3            \* files of one upload
MaxPlainTokens == 5      \* characters of a plain html_to_text argument
MaxEntityTokens == 3     \* tokens of an html_to_text argument of entities

----------------------------------------------------------------------------
(* Python values and str methods. *)

None == <<>>
Some(x) == <<x>>

RECURSIVE Flatten(_)
Flatten(ss) == IF ss = <<>> THEN <<>> ELSE Head(ss) \o Flatten(Tail(ss))

\* Sequences over S of length at most n.
SeqsUpTo(S, n) == UNION {[1..k -> S] : k \in 0..n}

\* str.isspace / regex \s, on the whitespace characters of the inputs.
IsSpace(c) == c \in {" ", "\t", "\n", "\r"}

RECURSIVE LStrip(_)
LStrip(s) == IF s # <<>> /\ IsSpace(Head(s)) THEN LStrip(Tail(s)) ELSE s

RECURSIVE RStrip(_)
RStrip(s) ==
    IF s # <<>> /\ IsSpace(s[Len(s)]) THEN RStrip(SubSeq(s, 1, Len(s) - 1))
    ELSE s

\* str.strip()
Strip(s) == RStrip(LStrip(s))

\* str.split(sep) for a one-character sep: always at least one segment.
RECURSIVE SplitFrom(_, _, _)
SplitFrom(s, sep, acc) ==
    IF s = <<>> THEN <<acc>>
    ELSE IF Head(s) = sep THEN <<acc>> \o SplitFrom(Tail(s), sep, <<>>)
    ELSE SplitFrom(Tail(s), sep, Append(acc, Head(s)))

Split(s, sep) == SplitFrom(s, sep, <<>>)

\* sep.join(parts)
RECURSIVE Join(_, _)
Join(sep, parts) ==
    IF parts = <<>> THEN <<>>
    ELSE IF Len(parts) = 1 THEN parts[1]
    ELSE parts[1] \o sep \o Join(sep, Tail(parts))

\* s.startswith(p) at offset i (1-based)
StartsAt(s, i, p) ==
    /\ i + Len(p) - 1 <= Len(s)
    /\ \A k \in 1..Len(p) : s[i + k - 1] = p[k]

\* str.replace(old, new): leftmost non-overlapping occurrences.
RECURSIVE ReplaceFrom(_, _, _, _)
ReplaceFrom(s, i, old, new) ==
    IF i > Len(s) THEN <<>>
    ELSE IF StartsAt(s, i, old) THEN new \o ReplaceFrom(s, i + Len(old), old, new)
    ELSE <<s[i]>> \o ReplaceFrom(s, i + 1, old, new)

Replace(s, old, new) == ReplaceFrom(s, 1, old, new)

\* First index >= i of s that holds no whitespace (Len(s) + 1 if none): \s*
RECURSIVE SkipSpace(_, _)
SkipSpace(s, i) ==
    IF i <= Len(s) /\ IsSpace(s[i]) THEN SkipSpace(s, i + 1) ELSE i

\* First index >= i of s that holds no member of S (Len(s) + 1 if none): [S]*
RECURSIVE SkipSet(_, _, _)
SkipSet(s, i, S) ==
    IF i <= Len(s) /\ s[i] \in S THEN SkipSet(s, i + 1, S) ELSE i

\* re.IGNORECASE on the letters of "br"
Lower(c) == IF c = "B" THEN "b" ELSE IF c = "R" THEN "r" ELSE c

----------------------------------------------------------------------------
(* html_to_text *)

\* Index of the last character of a match of <br\s*/?> starting at i, or 0.
BrMatchEnd(s, i) ==
    IF /\ i + 2 <= Len(s)
       /\ s[i] = "<"
       /\ Lower(s[i + 1]) = "b"
       /\ Lower(s[i + 2]) = "r"
    THEN LET j == SkipSpace(s, i + 3)
             k == IF j <= Len(s) /\ s[j] = "/" THEN j + 1 ELSE j
         IN  IF k <= Len(s) /\ s[k] = ">" THEN k ELSE 0
    ELSE 0

RECURSIVE BrSubFrom(_, _)
BrSubFrom(s, i) ==
    IF i > Len(s) THEN <<>>
    ELSE LET e == BrMatchEnd(s, i)
         IN  IF e > 0 THEN <<"\n">> \o BrSubFrom(s, e + 1)
             ELSE <<s[i]>> \o BrSubFrom(s, i + 1)

\* re.sub(r"<br\s*/?>", "\n", html, flags=re.IGNORECASE)
BrToNewline(s) == BrSubFrom(s, 1)

\* First index >= i of s that holds c (Len(s) + 1 if none).
RECURSIVE FindChar(_, _, _)
FindChar(s, i, c) ==
    IF i <= Len(s) /\ s[i] # c THEN FindChar(s, i + 1, c) ELSE i

\* Index of the last character of a match of <[^>]+> starting at i, or 0.
TagMatchEnd(s, i) ==
    IF s[i] = "<"
    THEN LET j == FindChar(s, i + 1, ">")
         IN  IF j <= Len(s) /\ j >= i + 2 THEN j ELSE 0
    ELSE 0

RECURSIVE TagSubFrom(_, _)
TagSubFrom(s, i) ==
    IF i > Len(s) THEN <<>>
    ELSE LET e == TagMatchEnd(s, i)
         IN  IF e > 0 THEN TagSubFrom(s, e + 1)
             ELSE <<s[i]>> \o TagSubFrom(s, i + 1)

\* re.sub(r"<[^>]+>", "", html)
StripTags(s) == TagSubFrom(s, 1)

\* the four replacements with &amp; first
ReplaceEntitiesAmpFirst(s) ==
    Replace(Replace(Replace(Replace(s,
        <<"&", "a", "m", "p", ";">>, <<"&">>),
        <<"&", "n", "b", "s", "p", ";">>, <<" ">>),
        <<"&", "l", "t", ";">>, <<"<">>),
        <<"&", "g", "t", ";">>, <<">">>)

\* .replace("&nbsp;", " ").replace("&amp;", "&").replace("&lt;", "<").replace("&gt;", ">")
ReplaceEntities(s) ==
    Replace(Replace(Replace(Replace(s,
        <<"&", "n", "b", "s", "p", ";">>, <<" ">>),
        <<"&", "a", "m", "p", ";">>, <<"&">>),
        <<"&", "l", "t", ";">>, <<"<">>),
        <<"&", "g", "t", ";">>, <<">">>)

IsBlank(c) == c \in {" ", "\t"}

\* a variant that replaces each pair of spaces by one space, in one pass
CollapseBlanksPairwise(s) == Replace(s, <<" ", " ">>, <<" ">>)

\* re.sub(r"[ \t]+", " ", text)
RECURSIVE CollapseBlanks(_)
CollapseBlanks(s) ==
    IF s = <<>> THEN <<>>
    ELSE IF IsBlank(Head(s))
         THEN IF Len(s) >= 2 /\ IsBlank(s[2]) THEN CollapseBlanks(Tail(s))
              ELSE <<" ">> \o CollapseBlanks(Tail(s))
    ELSE <<Head(s)>> \o CollapseBlanks(Tail(s))

\* re.sub(r"\s*\n\s*", "\n", text): a match starting at i is the whole run of
\* whitespace from i, provided the run holds a newline.
RECURSIVE NewlineSubFrom(_, _)
NewlineSubFrom(s, i) ==
    IF i > Len(s) THEN <<>>
    ELSE LET e == SkipSpace(s, i)
         IN  IF \E k \in i..(e - 1) : s[k] = "\n"
             THEN <<"\n">> \o NewlineSubFrom(s, e)
             ELSE <<s[i]>> \o NewlineSubFrom(s, i + 1)

\* the substitution with the pattern [ \t]*\n[ \t]*, which keeps every newline
RECURSIVE NewlineSubBlanksFrom(_, _)
NewlineSubBlanksFrom(s, i) ==
    IF i > Len(s) THEN <<>>
    ELSE LET e == SkipSet(s, i, {" ", "\t"})
         IN  IF e <= Len(s) /\ s[e] = "\n"
             THEN <<"\n">> \o NewlineSubBlanksFrom(s, SkipSet(s, e + 1, {" ", "\t"}))
             ELSE <<s[i]>> \o NewlineSubBlanksFrom(s, i + 1)

CollapseNewlinesKeepingEach(s) == NewlineSubBlanksFrom(s, 1)

CollapseNewlines(s) == NewlineSubFrom(s, 1)

html_to_text(h) ==
    IF h = <<>> THEN <<>>
    ELSE Strip(CollapseNewlines(CollapseBlanks(ReplaceEntities(StripTags(BrToNewline(h))))))

----------------------------------------------------------------------------
(* Variables a specification does not use keep these values. *)

IdleHtml == html = <<>> /\ text = <<>>

IdleXml ==
    /\ records = <<>> /\ rec = 0 /\ html_text = <<>> /\ split_lines = <<>>
    /\ line_pos = 0 /\ non_empty_lines = <<>> /\ scan_pos = 0
    /\ ws_gazette = <<>> /\ ws_lines = <<>> /\ ws_articles = <<>>
    /\ lines_row_idx = 0 /\ articles_row_idx = 0
    /\ current_article_no = None /\ current_title_line = None
    /\ current_start_line = None /\ current_lines = <<>> /\ last_line_no = None

IdleMerge == lines = <<>> /\ merge_pos = 0 /\ buffer = <<>> /\ yielded = <<>>

IdlePdf ==
    pages = <<>> /\ page_number = 0 /\ seg_no = 0 /\ ws_pdf = <<>> /\ row_idx = 0

IdleCls == cls_text = <<>> /\ cls_page = 0 /\ cls_seg_no = 0 /\ cls_result = ""

IdleBatch ==
    /\ entry = "" /\ files = <<>> /\ file_pos = 0 /\ errors = <<>>
    /\ seen_names = {} /\ zip_entries = <<>> /\ output_path = None
    /\ download_name = None /\ outcome = "running"

----------------------------------------------------------------------------
(* SpecHtml: html_to_text on its own, one action per statement. *)

HtmlTokens ==
    { <<"a">>, <<" ">>, <<"\n">>,
      <<"<", "b", "r", ">">>,
      <<"<", "B", "R", " ", "/", ">">>,
      <<"<", "b", ">">>,
      <<"&", "a", "m", "p", ";">>,
      <<"l", "t", ";">>,
      <<"&", "n", "b", "s", "p", ";">> }

HtmlInputs == {Flatten(ts) : ts \in SeqsUpTo(HtmlTokens, MaxHtmlTokens)}

\* plain text: no tag and no entity, every kind of white space
PlainTokens == { <<"a">>, <<" ">>, <<"\t">>, <<"\n">>, <<"\r">> }

PlainInputs == {Flatten(ts) : ts \in SeqsUpTo(PlainTokens, MaxPlainTokens)}

\* entities, halves of entities and single angle brackets
EntityTokens ==
    { <<"&", "a", "m", "p", ";">>,
      <<"&", "l", "t", ";">>,
      <<"&", "g", "t", ";">>,
      <<"&", "n", "b", "s", "p", ";">>,
      <<"l", "t", ";">>,
      <<"n", "b", "s", "p", ";">>,
      <<"b">>, <<"<">>, <<">">> }

EntityInputs == {Flatten(ts) : ts \in SeqsUpTo(EntityTokens, MaxEntityTokens)}

\* a <br> tag right after an open angle bracket, with and without a closing one
BrAfterAngle ==
    { <<"<", "b", "<", "b", "r", ">">>,
      <<"<", "<", "b", "r", ">", ">">>,
      <<"a", "<", "<", "B", "R", "/", ">", "a", ">", "a">> }

InitHtml ==
    /\ pc = "html_to_text"
    /\ html \in HtmlInputs \cup PlainInputs \cup EntityInputs \cup BrAfterAngle
    /\ text = <<>>
    /\ IdleXml /\ IdleMerge /\ IdlePdf /\ IdleCls /\ IdleBatch

HtmlStep(from, to, new) ==
    /\ pc = from
    /\ pc' = to
    /\ text' = new
    /\ UNCHANGED <<html, xmlVars, mergeVars, pdfVars, clsVars, batchVars>>

\* if not html: return ""
HtmlEmpty == html = <<>> /\ HtmlStep("html_to_text", "returned", <<>>)

HtmlBr == html # <<>> /\ HtmlStep("html_to_text", "tags", BrToNewline(html))

\* A variant that decodes the entities before it strips the tags.
HtmlTagsAfterEntities ==
    HtmlStep("tags", "entities", StripTags(ReplaceEntities(text)))

HtmlTags == HtmlStep("tags", "entities", StripTags(text))

HtmlEntities == HtmlStep("entities", "blanks", ReplaceEntities(text))

HtmlBlanks == HtmlStep("blanks", "newlines", CollapseBlanks(text))

HtmlNewlines == HtmlStep("newlines", "strip", CollapseNewlines(text))

HtmlStrip == HtmlStep("strip", "returned", Strip(text))

NextHtml ==
    \/ HtmlEmpty
    \/ HtmlBr
    \/ HtmlTags
    \/ HtmlEntities
    \/ HtmlBlanks
    \/ HtmlNewlines
    \/ HtmlStrip

SpecHtml == InitHtml /\ [][NextHtml]_vars

----------------------------------------------------------------------------
(* extract_to_excel *)

Digits == {"0", "1", "2", "3", "4", "5", "6", "7", "8", "9"}

BasicNumerals == {"yi", "er", "san", "si", "wu", "liu", "qi", "ba", "jiu", "shi"}

\* the character class of article_pattern
ArticleNumerals == BasicNumerals \cup {"ling", "ling0", "bai", "qian"} \cup Digits

\* article_pattern.match(t): None, or Some(match.group(1))
article_pattern(t) ==
    IF t # <<>> /\ t[1] = "di"
    THEN LET i == SkipSpace(t, 2)
             j == SkipSet(t, i, ArticleNumerals)
             k == SkipSpace(t, j)
         IN  IF j > i /\ k <= Len(t) /\ t[k] = "tiao"
             THEN Some(SubSeq(t, i, j - 1))
             ELSE None
    ELSE None

\* el.text of a child the record lacks is None; both give "".
get_text(record, tag_name) == Strip(record[tag_name])

\* ws.cell(row=r, ...) for every column of row r
WriteRow(ws, r, row) ==
    [x \in (DOMAIN ws) \cup {r} |-> IF x = r THEN row ELSE ws[x]]

LineTokens ==
    { <<"di", "yi", "tiao">>,
      <<"di", " ", "2", "tiao", "nei">>,
      <<"nei">>,
      <<"nei", "di", "yi", "tiao">>,
      <<" ">> }

PairLineTokens == { <<"di", "yi", "tiao">>, <<"nei">>, <<" ">> }

Br == <<"<", "b", "r", ">">>

\* the HTMLContent of scenario A
ScenarioA ==
    <<"di", "yi", "tiao">> \o Br \o <<"nei", "rong", "yi">> \o Br
        \o <<"di", "er", "tiao">> \o Br \o <<"nei", "rong", "er">>

\* two articles, the first with a body of two lines
TwoLineBody ==
    Join(Br, << <<"di", "yi", "tiao">>, <<"nei">>, <<"nei", "di", "yi", "tiao">>,
                <<"di", " ", "2", "tiao", "nei">>, <<"nei">> >>)

\* HTMLContent values: up to n lines of T separated by <br>
HtmlContents(T, n) == {Join(Br, ls) : ls \in SeqsUpTo(T, n)}

Record(i, h) == [MetaId |-> <<"m", i>>, GazetteId |-> <<"g", i>>, HTMLContent |-> h]

Init ==
    /\ pc = "record"
    /\ records \in
         {<<Record("1", h)>> :
             h \in HtmlContents(LineTokens, MaxRecordLines) \cup {ScenarioA, TwoLineBody}}
         \cup {<<Record("1", h1), Record("2", h2)>> :
                 h1 \in HtmlContents(PairLineTokens, MaxPairLines),
                 h2 \in HtmlContents(PairLineTokens, MaxPairLines)}
         \cup {<<Record("1", ScenarioA), Record("2", TwoLineBody)>>}
    /\ rec = 0
    /\ html_text = <<>> /\ split_lines = <<>> /\ line_pos = 0
    /\ non_empty_lines = <<>> /\ scan_pos = 0
    /\ ws_gazette = <<>> /\ ws_lines = <<>> /\ ws_articles = <<>>
    /\ lines_row_idx = 2 /\ articles_row_idx = 2
    /\ current_article_no = None /\ current_title_line = None
    /\ current_start_line = None /\ current_lines = <<>> /\ last_line_no = None
    /\ IdleHtml /\ IdleMerge /\ IdlePdf /\ IdleCls /\ IdleBatch

otherVarsXml == <<htmlVars, mergeVars, pdfVars, clsVars, batchVars>>

\* for row_idx, record in enumerate(records, start=2): the Gazette row
ReadRecord ==
    /\ pc = "record"
    /\ rec < Len(records)
    /\ LET record == records[rec + 1]
           t == html_to_text(get_text(record, "HTMLContent"))
       IN  /\ html_text' = t
           /\ ws_gazette' = WriteRow(ws_gazette, rec + 2,
                  [MetaId |-> get_text(record, "MetaId"),
                   GazetteId |-> get_text(record, "GazetteId"),
                   HTMLContentText |-> t])
           /\ split_lines' = Split(t, "\n")
    /\ rec' = rec + 1
    /\ line_pos' = 0
    /\ non_empty_lines' = <<>>
    /\ pc' = "lines"
    /\ UNCHANGED <<records, scan_pos, ws_lines, ws_articles, lines_row_idx,
                   articles_row_idx, current_article_no, current_title_line,
                   current_start_line, current_lines, last_line_no, otherVarsXml>>

meta_id == ws_gazette[rec + 1].MetaId
gazette_id == ws_gazette[rec + 1].GazetteId

\* enumerate without start=1
LineNoFromZero(pos) == pos

\* enumerate(html_text.split("\n"), start=1)
LineNoAt(pos) == pos + 1

\* if not clean_line: continue
SkipLine ==
    /\ pc = "lines"
    /\ line_pos < Len(split_lines)
    /\ Strip(split_lines[line_pos + 1]) = <<>>
    /\ line_pos' = line_pos + 1
    /\ UNCHANGED <<pc, records, rec, html_text, split_lines, non_empty_lines,
                   scan_pos, ws_gazette, ws_lines, ws_articles, lines_row_idx,
                   articles_row_idx, current_article_no, current_title_line,
                   current_start_line, current_lines, last_line_no, otherVarsXml>>

\* A variant that leaves lines_row_idx where it was after writing the row.
WriteLineNoAdvance ==
    /\ pc = "lines"
    /\ line_pos < Len(split_lines)
    /\ LET line_no == LineNoAt(line_pos)
           clean_line == Strip(split_lines[line_pos + 1])
       IN  /\ clean_line # <<>>
           /\ ws_lines' = WriteRow(ws_lines, lines_row_idx,
                  [MetaId |-> meta_id, GazetteId |-> gazette_id,
                   LineNo |-> line_no, Text |-> clean_line])
           /\ non_empty_lines' = Append(non_empty_lines, <<line_no, clean_line>>)
    /\ line_pos' = line_pos + 1
    /\ UNCHANGED <<pc, records, rec, html_text, split_lines, scan_pos, ws_gazette,
                   ws_articles, lines_row_idx, articles_row_idx,
                   current_article_no, current_title_line, current_start_line,
                   current_lines, last_line_no, otherVarsXml>>

\* the Lines row of a non-empty line
WriteLine ==
    /\ pc = "lines"
    /\ line_pos < Len(split_lines)
    /\ LET line_no == LineNoAt(line_pos)
           clean_line == Strip(split_lines[line_pos + 1])
       IN  /\ clean_line # <<>>
           /\ ws_lines' = WriteRow(ws_lines, lines_row_idx,
                  [MetaId |-> meta_id, GazetteId |-> gazette_id,
                   LineNo |-> line_no, Text |-> clean_line])
           /\ non_empty_lines' = Append(non_empty_lines, <<line_no, clean_line>>)
    /\ lines_row_idx' = lines_row_idx + 1
    /\ line_pos' = line_pos + 1
    /\ UNCHANGED <<pc, records, rec, html_text, split_lines, scan_pos, ws_gazette,
                   ws_articles, articles_row_idx, current_article_no,
                   current_title_line, current_start_line, current_lines,
                   last_line_no, otherVarsXml>>

\* A variant that keeps the article accumulators of the record before.
StartScanNoReset ==
    /\ pc = "lines"
    /\ line_pos = Len(split_lines)
    /\ scan_pos' = 0
    /\ pc' = "scan"
    /\ UNCHANGED <<records, rec, html_text, split_lines, line_pos, non_empty_lines,
                   ws_gazette, ws_lines, ws_articles, lines_row_idx,
                   articles_row_idx, current_article_no, current_title_line,
                   current_start_line, current_lines, last_line_no, otherVarsXml>>

\* the Lines loop is over: reset the article accumulators
StartScan ==
    /\ pc = "lines"
    /\ line_pos = Len(split_lines)
    /\ current_article_no' = None
    /\ current_title_line' = None
    /\ current_start_line' = None
    /\ current_lines' = <<>>
    /\ last_line_no' = None
    /\ scan_pos' = 0
    /\ pc' = "scan"
    /\ UNCHANGED <<records, rec, html_text, split_lines, line_pos, non_empty_lines,
                   ws_gazette, ws_lines, ws_articles, lines_row_idx,
                   articles_row_idx, otherVarsXml>>

\* the test without "and current_lines"
ArticlePendingAnyBody == current_article_no # None

\* if current_article_no is not None and current_lines:
ArticlePending == current_article_no # None /\ current_lines # <<>>

\* the row with the body lines joined by a space
ArticleRowSpaceJoined ==
    [MetaId |-> meta_id, GazetteId |-> gazette_id,
     ArticleNo |-> current_article_no[1],
     TitleLine |-> current_title_line[1],
     LineStart |-> current_start_line[1],
     LineEnd |-> last_line_no[1],
     Text |-> Strip(Join(<<" ">>, current_lines))]

ArticleRow ==
    [MetaId |-> meta_id, GazetteId |-> gazette_id,
     ArticleNo |-> current_article_no[1],
     TitleLine |-> current_title_line[1],
     LineStart |-> current_start_line[1],
     LineEnd |-> last_line_no[1],
     Text |-> Strip(Join(<<"\n">>, current_lines))]

\* the seven ws_articles.cell writes and articles_row_idx += 1, when pending
EmitArticle ==
    IF ArticlePending
    THEN /\ ws_articles' = WriteRow(ws_articles, articles_row_idx, ArticleRow)
         /\ articles_row_idx' = articles_row_idx + 1
    ELSE UNCHANGED <<ws_articles, articles_row_idx>>

\* a line that matches article_pattern
ScanTitle ==
    /\ pc = "scan"
    /\ scan_pos < Len(non_empty_lines)
    /\ LET line_no == non_empty_lines[scan_pos + 1][1]
           t == non_empty_lines[scan_pos + 1][2]
           match == article_pattern(t)
       IN  /\ match # None
           /\ EmitArticle
           /\ current_article_no' = Some(match[1])
           /\ current_title_line' = Some(t)
           /\ current_start_line' = Some(line_no)
           /\ current_lines' = <<>>
           /\ last_line_no' = Some(line_no)
    /\ scan_pos' = scan_pos + 1
    /\ UNCHANGED <<pc, records, rec, html_text, split_lines, line_pos,
                   non_empty_lines, ws_gazette, ws_lines, lines_row_idx,
                   otherVarsXml>>

\* A variant that appends the body line and leaves last_line_no at the title.
ScanBodyKeepsLastLine ==
    /\ pc = "scan"
    /\ scan_pos < Len(non_empty_lines)
    /\ LET t == non_empty_lines[scan_pos + 1][2]
       IN  /\ article_pattern(t) = None
           /\ IF current_article_no # None
              THEN current_lines' = Append(current_lines, t)
              ELSE UNCHANGED current_lines
    /\ scan_pos' = scan_pos + 1
    /\ UNCHANGED <<pc, records, rec, html_text, split_lines, line_pos,
                   non_empty_lines, ws_gazette, ws_lines, ws_articles,
                   lines_row_idx, articles_row_idx, current_article_no,
                   current_title_line, current_start_line, last_line_no,
                   otherVarsXml>>

\* a line that does not match
ScanBody ==
    /\ pc = "scan"
    /\ scan_pos < Len(non_empty_lines)
    /\ LET line_no == non_empty_lines[scan_pos + 1][1]
           t == non_empty_lines[scan_pos + 1][2]
       IN  /\ article_pattern(t) = None
           /\ IF current_article_no # None
              THEN /\ current_lines' = Append(current_lines, t)
                   /\ last_line_no' = Some(line_no)
              ELSE UNCHANGED <<current_lines, last_line_no>>
    /\ scan_pos' = scan_pos + 1
    /\ UNCHANGED <<pc, records, rec, html_text, split_lines, line_pos,
                   non_empty_lines, ws_gazette, ws_lines, ws_articles,
                   lines_row_idx, articles_row_idx, current_article_no,
                   current_title_line, current_start_line, otherVarsXml>>

\* the function without the write after the loop
FlushLastSkipped ==
    /\ pc = "scan"
    /\ scan_pos = Len(non_empty_lines)
    /\ pc' = "record"
    /\ UNCHANGED <<records, rec, html_text, split_lines, line_pos, non_empty_lines,
                   scan_pos, ws_gazette, ws_lines, ws_articles, lines_row_idx,
                   articles_row_idx, current_article_no, current_title_line,
                   current_start_line, current_lines, last_line_no, otherVarsXml>>

\* after the article loop: write the article still accumulating
FlushLast ==
    /\ pc = "scan"
    /\ scan_pos = Len(non_empty_lines)
    /\ EmitArticle
    /\ pc' = "record"
    /\ UNCHANGED <<records, rec, html_text, split_lines, line_pos, non_empty_lines,
                   scan_pos, ws_gazette, ws_lines, lines_row_idx,
                   current_article_no, current_title_line, current_start_line,
                   current_lines, last_line_no, otherVarsXml>>

\* wb.save(output_path)
Save ==
    /\ pc = "record"
    /\ rec = Len(records)
    /\ pc' = "saved"
    /\ UNCHANGED <<xmlVars, otherVarsXml>>

Next ==
    \/ ReadRecord
    \/ SkipLine
    \/ WriteLine
    \/ StartScan
    \/ ScanTitle
    \/ ScanBody
    \/ FlushLast
    \/ Save

Spec == Init /\ [][Next]_vars

----------------------------------------------------------------------------
(* merge_chinese_lines, one action per iteration of its loop. *)

\* end_punct without the ASCII marks
end_punct_fullwidth_only == {"ju", "fw!", "fw?", "fw;", "fw:"}

end_punct == {"ju", "fw!", "fw?", "fw;", "fw:", "!", "?", ";", ":"}

\* the join with a space between the fragments
ParagraphSpaced(buf) == Strip(Join(<<" ">>, buf))

\* yield "".join(buffer).strip()
Paragraph(buf) == Strip(Flatten(buf))

MergeLineTokens ==
    { <<"yi">>,
      <<"nei", "ju">>,
      <<" ", "nei", " ">>,
      <<"nei", ":", " ">>,
      <<"ju", "nei">>,
      <<>>,
      <<" ">> }

InitMerge ==
    /\ pc = "merge"
    /\ lines \in SeqsUpTo(MergeLineTokens, MaxLines)
    /\ merge_pos = 0
    /\ buffer = <<>>
    /\ yielded = <<>>
    /\ IdleHtml /\ IdleXml /\ IdlePdf /\ IdleCls /\ IdleBatch

otherVarsMerge == <<htmlVars, xmlVars, pdfVars, clsVars, batchVars>>

\* if not line: a blank line ends the paragraph
MergeBlank ==
    /\ pc = "merge"
    /\ merge_pos < Len(lines)
    /\ Strip(lines[merge_pos + 1]) = <<>>
    /\ IF buffer # <<>>
       THEN yielded' = Append(yielded, Paragraph(buffer)) /\ buffer' = <<>>
       ELSE UNCHANGED <<yielded, buffer>>
    /\ merge_pos' = merge_pos + 1
    /\ UNCHANGED <<pc, lines, otherVarsMerge>>

\* buffer.append(line); a line ending in end_punct ends the paragraph
MergeAppend ==
    /\ pc = "merge"
    /\ merge_pos < Len(lines)
    /\ LET line == Strip(lines[merge_pos + 1])
       IN  /\ line # <<>>
           /\ IF line[Len(line)] \in end_punct
              THEN /\ yielded' = Append(yielded, Paragraph(Append(buffer, line)))
                   /\ buffer' = <<>>
              ELSE /\ buffer' = Append(buffer, line)
                   /\ UNCHANGED yielded
    /\ merge_pos' = merge_pos + 1
    /\ UNCHANGED <<pc, lines, otherVarsMerge>>

\* A variant without the yield after the loop.
MergeEndDropsBuffer ==
    /\ pc = "merge"
    /\ merge_pos = Len(lines)
    /\ buffer' = <<>>
    /\ pc' = "merged"
    /\ UNCHANGED <<yielded, lines, merge_pos, otherVarsMerge>>

\* after the loop: if buffer: yield
MergeEnd ==
    /\ pc = "merge"
    /\ merge_pos = Len(lines)
    /\ IF buffer # <<>>
       THEN yielded' = Append(yielded, Paragraph(buffer)) /\ buffer' = <<>>
       ELSE UNCHANGED <<yielded, buffer>>
    /\ pc' = "merged"
    /\ UNCHANGED <<lines, merge_pos, otherVarsMerge>>

NextMerge ==
    \/ MergeBlank
    \/ MergeAppend
    \/ MergeEnd

SpecMerge == InitMerge /\ [][NextMerge]_vars

----------------------------------------------------------------------------
(* classify_segment *)

\* ^di\s*[numerals]+\s*tiao
IsArticleTitle(t) == article_pattern(t) # None

\* ^[yi-shi]+\s*dun
IsItem(t) ==
    LET i == SkipSet(t, 1, BasicNumerals)
        k == SkipSpace(t, i)
    IN  i > 1 /\ k <= Len(t) /\ t[k] = "dun"

\* ^[fw( (]?[yi-shi 0-9]+[) fw) fw. . dun]
IsSubItem(t) ==
    LET p == IF t # <<>> /\ t[1] \in {"fw(", "("} THEN 2 ELSE 1
        j == SkipSet(t, p, BasicNumerals \cup Digits)
    IN  j > p /\ j <= Len(t) /\ t[j] \in {")", "fw)", "fw.", ".", "dun"}

\* the function with the SubItem test before the Item test
classify_segment_subitem_first(txt, page, seg) ==
    LET t == Strip(txt)
    IN  IF page = 1 /\ seg <= 3 THEN "Header"
        ELSE IF IsArticleTitle(t) THEN "ArticleTitle"
        ELSE IF IsSubItem(t) THEN "SubItem"
        ELSE IF IsItem(t) THEN "Item"
        ELSE "Body"

classify_segment(txt, page, seg) ==
    LET t == Strip(txt)
    IN  IF page = 1 /\ seg <= 3 THEN "Header"
        ELSE IF IsArticleTitle(t) THEN "ArticleTitle"
        ELSE IF IsItem(t) THEN "Item"
        ELSE IF IsSubItem(t) THEN "SubItem"
        ELSE "Body"

ClassifyChars == {"di", "yi", "1", "tiao", "dun", "(", ")", " ", "nei"}

InitClassify ==
    /\ pc = "classify"
    /\ cls_text \in SeqsUpTo(ClassifyChars, MaxTextLen)
    /\ cls_page \in 1..2
    /\ cls_seg_no \in 1..MaxSegNo
    /\ cls_result = ""
    /\ IdleHtml /\ IdleXml /\ IdleMerge /\ IdlePdf /\ IdleBatch

Classify ==
    /\ pc = "classify"
    /\ cls_result' = classify_segment(cls_text, cls_page, cls_seg_no)
    /\ pc' = "classified"
    /\ UNCHANGED <<cls_text, cls_page, cls_seg_no, htmlVars, xmlVars, mergeVars,
                   pdfVars, batchVars>>

NextClassify == Classify

SpecClassify == InitClassify /\ [][NextClassify]_vars

----------------------------------------------------------------------------
(* extract_pdf_to_excel *)

\* str.splitlines() on the line boundaries "\n", "\r" and "\r\n"
RECURSIVE SplitlinesFrom(_, _)
SplitlinesFrom(s, acc) ==
    IF s = <<>> THEN IF acc = <<>> THEN <<>> ELSE <<acc>>
    ELSE IF Head(s) = "\r" /\ Len(s) >= 2 /\ s[2] = "\n"
         THEN <<acc>> \o SplitlinesFrom(Tail(Tail(s)), <<>>)
    ELSE IF Head(s) \in {"\n", "\r"}
         THEN <<acc>> \o SplitlinesFrom(Tail(s), <<>>)
    ELSE SplitlinesFrom(Tail(s), Append(acc, Head(s)))

Splitlines(s) == SplitlinesFrom(s, <<>>)

\* raw_lines = [ln for ln in (l.strip() for l in text.splitlines()) if ln]
RawLines(t) ==
    SelectSeq([i \in 1..Len(Splitlines(t)) |-> Strip(Splitlines(t)[i])],
              LAMBDA ln : ln # <<>>)

PageLineTokens ==
    { <<"nei">>,
      <<"nei", "ju">>,
      <<"yi", "dun", "nei", "ju">>,
      <<"di", "1", "tiao", "ju">>,
      <<" ">> }

PairPageLineTokens ==
    { <<"nei">>, <<"yi", "dun", "nei", "ju">>, <<"di", "1", "tiao", "ju">>, <<" ">> }

\* the page text of scenario B
ScenarioB ==
    <<"di", "1", "ye", "biao", "ti", "\n",
      "yi", "dun", "xiang", "mu", "yi", "ju", "\n",
      "nei", "wen", "ju">>

\* three pages: two paragraphs, a page of white space, two paragraphs
ThreePages ==
    << <<"nei", "ju", "\n", "nei">>,
       <<" ">>,
       <<"yi", "dun", "nei", "ju", "\n", "nei", "ju">> >>

\* page.extract_text() or "": up to n lines of T separated by newlines
PageTexts(T, n) == {Join(<<"\n">>, ls) : ls \in SeqsUpTo(T, n)}

InitPdf ==
    /\ pc = "page"
    /\ pages \in
         {<<t>> : t \in PageTexts(PageLineTokens, MaxPageLines) \cup {ScenarioB}}
         \cup {<<t1, t2>> :
                 t1 \in PageTexts(PairPageLineTokens, MaxPairLines),
                 t2 \in PageTexts(PairPageLineTokens, MaxPairLines)}
         \cup {ThreePages}
    /\ page_number = 0
    /\ seg_no = 0
    /\ ws_pdf = <<>>
    /\ row_idx = 2
    /\ IdleMerge
    /\ IdleHtml /\ IdleXml /\ IdleCls /\ IdleBatch

otherVarsPdf == <<htmlVars, xmlVars, clsVars, batchVars>>

\* if not text.strip(): continue
SkipPage ==
    /\ pc = "page"
    /\ page_number < Len(pages)
    /\ Strip(pages[page_number + 1]) = <<>>
    /\ page_number' = page_number + 1
    /\ UNCHANGED <<pc, pages, seg_no, ws_pdf, row_idx, mergeVars, otherVarsPdf>>

\* a page with text: raw_lines go to merge_chinese_lines
OpenPage ==
    /\ pc = "page"
    /\ page_number < Len(pages)
    /\ Strip(pages[page_number + 1]) # <<>>
    /\ page_number' = page_number + 1
    /\ lines' = RawLines(pages[page_number + 1])
    /\ merge_pos' = 0
    /\ buffer' = <<>>
    /\ yielded' = <<>>
    /\ seg_no' = 0
    /\ pc' = "merge"
    /\ UNCHANGED <<pages, ws_pdf, row_idx, otherVarsPdf>>

\* A variant that numbers the segments of the whole file in one run, never
\* restarting at a page.
WriteSegmentRunningNo ==
    /\ pc = "merged"
    /\ seg_no < Len(yielded)
    /\ LET segment == yielded[seg_no + 1]
       IN  ws_pdf' = WriteRow(ws_pdf, row_idx,
               [Page |-> page_number, SegmentNo |-> row_idx - 1,
                Type |-> classify_segment(segment, page_number, row_idx - 1),
                Text |-> segment])
    /\ row_idx' = row_idx + 1
    /\ seg_no' = seg_no + 1
    /\ UNCHANGED <<pc, pages, page_number, mergeVars, otherVarsPdf>>

\* for seg_no, segment in enumerate(segments, start=1): one PdfText row
WriteSegment ==
    /\ pc = "merged"
    /\ seg_no < Len(yielded)
    /\ LET segment == yielded[seg_no + 1]
       IN  ws_pdf' = WriteRow(ws_pdf, row_idx,
               [Page |-> page_number, SegmentNo |-> seg_no + 1,
                Type |-> classify_segment(segment, page_number, seg_no + 1),
                Text |-> segment])
    /\ row_idx' = row_idx + 1
    /\ seg_no' = seg_no + 1
    /\ UNCHANGED <<pc, pages, page_number, mergeVars, otherVarsPdf>>

EndPage ==
    /\ pc = "merged"
    /\ seg_no = Len(yielded)
    /\ pc' = "page"
    /\ UNCHANGED <<pdfVars, mergeVars, otherVarsPdf>>

\* wb.save(output_path)
SavePdf ==
    /\ pc = "page"
    /\ page_number = Len(pages)
    /\ pc' = "saved"
    /\ UNCHANGED <<pdfVars, mergeVars, otherVarsPdf>>

\* raw_lines holds no blank line, so the blank-line branch of
\* merge_chinese_lines (MergeBlank) cannot run here.
NextPdf ==
    \/ SkipPage
    \/ OpenPage
    \/ MergeAppend
    \/ MergeEnd
    \/ WriteSegment
    \/ EndPage
    \/ SavePdf

SpecPdf == InitPdf /\ [][NextPdf]_vars

----------------------------------------------------------------------------
(* process_single_file, process_uploaded_files (pipeline.py) and the POST    *)
(* branch of upload_xml (views.py), which holds the same loop.               *)

\* str.lower() on the letters of the file names
LowerStr(s) == [i \in 1..Len(s) |-> Lower(s[i])]

EndsWith(s, suffix) ==
    Len(suffix) <= Len(s) /\ SubSeq(s, Len(s) - Len(suffix) + 1, Len(s)) = suffix

\* Index of the last "." of s (0 if none).
RECURSIVE LastDot(_, _)
LastDot(s, i) == IF i = 0 \/ s[i] = "." THEN i ELSE LastDot(s, i - 1)

\* os.path.splitext(name): <<base, ext>>; a leading dot starts no extension
Splitext(name) ==
    LET d == LastDot(name, Len(name))
    IN  IF d <= 1 THEN <<name, <<>> >>
        ELSE <<SubSeq(name, 1, d - 1), SubSeq(name, d, Len(name))>>

\* Path(filename).stem
Stem(name) == Splitext(name)[1]

Xlsx == <<".", "x", "l", "s", "x">>

\* str(n) for n >= 0
RECURSIVE Decimal(_)
Decimal(n) ==
    LET d == <<"0", "1", "2", "3", "4", "5", "6", "7", "8", "9">>[(n % 10) + 1]
    IN  IF n < 10 THEN <<d>> ELSE Append(Decimal(n \div 10), d)

\* What process_single_file(uploaded) does: the exception it raises ("none"
\* when it returns) and the download name it returns.  A file that cannot be
\* read makes the extractor raise an exception that is no ValueError.
process_single_file(uploaded) ==
    LET filename == uploaded.name
        lower_name == LowerStr(filename)
    IN  IF EndsWith(lower_name, <<".", "x", "m", "l">>)
        THEN IF uploaded.readable
             THEN [raised |-> "none", download_name |-> Stem(filename) \o Xlsx]
             ELSE [raised |-> "Exception", download_name |-> <<>>]
        ELSE IF EndsWith(lower_name, <<".", "z", "i", "p">>)
        THEN IF ~uploaded.readable
             THEN [raised |-> "Exception", download_name |-> <<>>]
             ELSE LET xml_names ==
                          SelectSeq(uploaded.namelist,
                              LAMBDA n : EndsWith(LowerStr(n), <<".", "x", "m", "l">>))
                  IN  IF xml_names = <<>>
                      THEN [raised |-> "ValueError", download_name |-> <<>>]
                      ELSE [raised |-> "none",
                            download_name |-> Stem(xml_names[1]) \o Xlsx]
        ELSE IF EndsWith(lower_name, <<".", "p", "d", "f">>)
        THEN IF uploaded.readable
             THEN [raised |-> "none",
                   download_name |-> Stem(filename) \o <<"_", "p", "d", "f">> \o Xlsx]
             ELSE [raised |-> "Exception", download_name |-> <<>>]
        ELSE [raised |-> "ValueError", download_name |-> <<>>]

\* "if" in place of "while": one renaming, to the name with idx
RenameOnce(final_name, base, ext, idx, seen) ==
    IF final_name \in seen THEN base \o <<"_">> \o Decimal(idx) \o ext ELSE final_name

\* while final_name in seen_names: final_name = f"{base}_{idx}{ext}"; idx += 1
RECURSIVE RenameLoop(_, _, _, _, _)
RenameLoop(final_name, base, ext, idx, seen) ==
    IF final_name \in seen
    THEN RenameLoop(base \o <<"_">> \o Decimal(idx) \o ext, base, ext, idx + 1, seen)
    ELSE final_name

FinalName(out_name, seen) ==
    RenameLoop(out_name, Splitext(out_name)[1], Splitext(out_name)[2], 2, seen)

File(n, r, inner) == [name |-> n, readable |-> r, namelist |-> inner]

UploadedFiles ==
    { File(<<"a", ".", "x", "m", "l">>, TRUE, <<>>),
      File(<<"a", "_", "2", ".", "x", "m", "l">>, TRUE, <<>>),
      File(<<"a", ".", "x", "m", "l">>, FALSE, <<>>),
      File(<<"a", ".", "z", "i", "p">>, TRUE, << <<"r", ".", "t", "x", "t">> >>),
      File(<<"b", ".", "z", "i", "p">>, TRUE,
           << <<"r", ".", "t", "x", "t">>, <<"a", ".", "x", "m", "l">> >>),
      File(<<"a", ".", "p", "d", "f">>, TRUE, <<>>),
      File(<<"a", ".", "t", "x", "t">>, TRUE, <<>>) }

InitBatch ==
    /\ pc = "call"
    /\ entry \in {"process_uploaded_files", "upload_xml"}
    /\ files \in SeqsUpTo(UploadedFiles, MaxFiles)
    /\ file_pos = 0
    /\ errors = <<>>
    /\ seen_names = {}
    /\ zip_entries = <<>>
    /\ output_path = None
    /\ download_name = None
    /\ outcome = "running"
    /\ IdleHtml /\ IdleXml /\ IdleMerge /\ IdlePdf /\ IdleCls

otherVarsBatch == <<htmlVars, xmlVars, mergeVars, pdfVars, clsVars>>

\* How a call ends.  process_uploaded_files returns a triple or lets an
\* exception out; upload_xml answers with a file or renders the form with an
\* error.
Returns(path, name, errs) ==
    /\ outcome' = IF entry = "process_uploaded_files" THEN "returned"
                  ELSE IF path = None THEN "rendered" ELSE "response"
    /\ output_path' = path
    /\ download_name' = name
    /\ errors' = errs
    /\ pc' = "done"

\* if not files:
NoFiles ==
    /\ pc = "call"
    /\ files = <<>>
    /\ Returns(None, None, << [name |-> <<>>, raised |-> "no files"] >>)
    /\ UNCHANGED <<entry, files, file_pos, seen_names, zip_entries, otherVarsBatch>>

\* if len(files) == 1: process_single_file(files[0]) outside any try of
\* process_uploaded_files; upload_xml catches the exception and renders it
SingleFile ==
    /\ pc = "call"
    /\ Len(files) = 1
    /\ LET r == process_single_file(files[1])
       IN  IF r.raised = "none"
           THEN Returns(Some("xlsx"), Some(r.download_name), <<>>)
           ELSE /\ outcome' = IF entry = "process_uploaded_files" THEN "raised"
                              ELSE "rendered"
                /\ pc' = "done"
                /\ UNCHANGED <<output_path, download_name, errors>>
    /\ file_pos' = 1
    /\ UNCHANGED <<entry, files, seen_names, zip_entries, otherVarsBatch>>

\* several files: the temporary ZIP, errors = [], seen_names = set()
OpenZip ==
    /\ pc = "call"
    /\ Len(files) >= 2
    /\ errors' = <<>>
    /\ seen_names' = {}
    /\ pc' = "loop"
    /\ UNCHANGED <<entry, files, file_pos, zip_entries, output_path, download_name,
                   outcome, otherVarsBatch>>

\* the try body: the file is processed and written under a fresh arcname
AddToZip ==
    /\ pc = "loop"
    /\ file_pos < Len(files)
    /\ LET r == process_single_file(files[file_pos + 1])
           final_name == FinalName(r.download_name, seen_names)
       IN  /\ r.raised = "none"
           /\ zip_entries' = Append(zip_entries, final_name)
           /\ seen_names' = seen_names \cup {final_name}
    /\ file_pos' = file_pos + 1
    /\ UNCHANGED <<pc, entry, files, errors, output_path, download_name, outcome,
                   otherVarsBatch>>

\* the loop with "except ValueError" alone: any other exception leaves it
RecordErrorValueErrorOnly ==
    /\ pc = "loop"
    /\ file_pos < Len(files)
    /\ LET f == files[file_pos + 1]
           r == process_single_file(f)
       IN  /\ r.raised # "none"
           /\ IF r.raised = "ValueError"
              THEN /\ errors' = Append(errors, [name |-> f.name, raised |-> r.raised])
                   /\ UNCHANGED <<pc, outcome>>
              ELSE /\ outcome' = IF entry = "process_uploaded_files" THEN "raised"
                                 ELSE "rendered"
                   /\ pc' = "done"
                   /\ UNCHANGED errors
    /\ file_pos' = file_pos + 1
    /\ UNCHANGED <<entry, files, seen_names, zip_entries, output_path,
                   download_name, otherVarsBatch>>

\* except ValueError / except Exception: one entry of errors, the loop goes on
RecordError ==
    /\ pc = "loop"
    /\ file_pos < Len(files)
    /\ LET f == files[file_pos + 1]
           r == process_single_file(f)
       IN  /\ r.raised # "none"
           /\ errors' = Append(errors, [name |-> f.name, raised |-> r.raised])
    /\ file_pos' = file_pos + 1
    /\ UNCHANGED <<pc, entry, files, seen_names, zip_entries, output_path,
                   download_name, outcome, otherVarsBatch>>

\* after the loop: if errors and len(errors) == len(files): no ZIP
CloseZip ==
    /\ pc = "loop"
    /\ file_pos = Len(files)
    /\ IF errors # <<>> /\ Len(errors) = Len(files)
       THEN Returns(None, None, errors)
       ELSE Returns(Some("zip"),
                    Some(<<"g", "a", "z", "e", "t", "t", "e", "_", "r", "e", "s",
                           "u", "l", "t", "s", ".", "z", "i", "p">>),
                    errors)
    /\ UNCHANGED <<entry, files, file_pos, seen_names, zip_entries, otherVarsBatch>>

NextBatch ==
    \/ NoFiles
    \/ SingleFile
    \/ OpenZip
    \/ AddToZip
    \/ RecordError
    \/ CloseZip

SpecBatch == InitBatch /\ [][NextBatch]_vars

----------------------------------------------------------------------------
(* Properties of extract_to_excel (Spec). *)

\* The rows of a sheet in row order (row 2 first).
Rows(ws) == [i \in 1..Cardinality(DOMAIN ws) |-> ws[i + 1]]

RowsOf(ws, m) == SelectSeq(Rows(ws), LAMBDA r : r.MetaId = m)

\* The article scan of record rec is over (FlushLast has run).
RecordScanned == pc = "record" /\ rec >= 1

NLines == Len(non_empty_lines)
LineNoOf(i) == non_empty_lines[i][1]
TextOf(i) == non_empty_lines[i][2]
IsTitle(i) == article_pattern(TextOf(i)) # None
TitleIdx == {i \in 1..NLines : IsTitle(i)}

\* The last line of the run of body lines that follows title i (i if none).
RECURSIVE BodyEnd(_)
BodyEnd(i) == IF i < NLines /\ ~IsTitle(i + 1) THEN BodyEnd(i + 1) ELSE i

HasBody(i) == i < NLines /\ ~IsTitle(i + 1)

ArticlesOfRecord == RowsOf(ws_articles, meta_id)

\* C1: when every line of the record that matches the article pattern is
\* immediately followed by a body line, the scan emits exactly one Article
\* row per matching line, and each row has LineStart < LineEnd, or
\* LineStart = LineEnd only if exactly one body line followed.
C1_OneArticlePerTitle ==
    (RecordScanned /\ \A i \in TitleIdx : HasBody(i)) =>
        /\ Len(ArticlesOfRecord) = Cardinality(TitleIdx)
        /\ \A k \in 1..Len(ArticlesOfRecord) :
             LET a == ArticlesOfRecord[k]
                 i == CHOOSE i \in TitleIdx : LineNoOf(i) = a.LineStart
             IN  /\ a.LineStart <= a.LineEnd
                 /\ a.LineStart = a.LineEnd => BodyEnd(i) - i = 1

C1_Witness ==
    /\ RecordScanned
    /\ \A i \in TitleIdx : HasBody(i)
    /\ Cardinality(TitleIdx) = 2
    /\ Len(ArticlesOfRecord) = 2
    /\ \E i \in TitleIdx : BodyEnd(i) - i = 2

\* Titles among the first n lines whose article is closed within them: a
\* body line follows and a later title (or, after the loop, the end) is seen.
ClosedTitles(n, ended) ==
    {i \in TitleIdx : /\ i < n
                      /\ HasBody(i)
                      /\ \/ BodyEnd(i) < n
                         \/ ended /\ BodyEnd(i) = NLines}

\* C2: a title line reached while the current article has an empty body
\* replaces it without emitting a row, and a title that is the last line of
\* the record is not emitted: at every point of the scan the rows emitted for
\* the record are those of the titles followed by at least one body line
\* before the next title or the end of the record.
C2_EmptyBodyDropped ==
    /\ pc = "scan" =>
         /\ {a.LineStart : a \in {ArticlesOfRecord[k] : k \in 1..Len(ArticlesOfRecord)}}
              = {LineNoOf(i) : i \in ClosedTitles(scan_pos, FALSE)}
         /\ Len(ArticlesOfRecord) = Cardinality(ClosedTitles(scan_pos, FALSE))
         /\ (scan_pos >= 1 /\ IsTitle(scan_pos)) =>
              /\ current_title_line = Some(TextOf(scan_pos))
              /\ current_lines = <<>>
    /\ RecordScanned =>
         /\ {a.LineStart : a \in {ArticlesOfRecord[k] : k \in 1..Len(ArticlesOfRecord)}}
              = {LineNoOf(i) : i \in {j \in TitleIdx : HasBody(j)}}
         /\ Len(ArticlesOfRecord) = Cardinality({j \in TitleIdx : HasBody(j)})

C2_Witness ==
    /\ RecordScanned
    /\ \E i \in TitleIdx : i + 1 \in TitleIdx
    /\ NLines \in TitleIdx
    /\ Len(ArticlesOfRecord) = 1
    /\ Cardinality(TitleIdx) = 3

\* The numeral run of a title line: the characters between "di" (and the
\* whitespace after it) and the first character that is no numeral.
NumeralRun(t) ==
    LET i == SkipSpace(t, 2)
    IN  SubSeq(t, i, SkipSet(t, i, ArticleNumerals) - 1)

TitlesWithBody == {i \in TitleIdx : HasBody(i)}

\* The k-th title with a body, in line order.
NthTitle(k) ==
    CHOOSE i \in TitlesWithBody : Cardinality({j \in TitlesWithBody : j < i}) = k - 1

ExpectedArticle(i) ==
    [MetaId |-> meta_id, GazetteId |-> gazette_id,
     ArticleNo |-> NumeralRun(TextOf(i)),
     TitleLine |-> TextOf(i),
     LineStart |-> LineNoOf(i),
     LineEnd |-> LineNoOf(BodyEnd(i)),
     Text |-> Join(<<"\n">>, [j \in 1..(BodyEnd(i) - i) |-> TextOf(i + j)])]

\* C3: every Article row carries the numeral run of its title line, the
\* title line, the title's line number, the line number of the last body
\* line and the newline-join of exactly the lines between this title and
\* the next (or the end of the record); lines before the first title are in
\* no row; scenario A yields exactly its two articles.
C3_ArticleRowContents ==
    RecordScanned =>
        /\ ArticlesOfRecord =
             [k \in 1..Cardinality(TitlesWithBody) |-> ExpectedArticle(NthTitle(k))]
        /\ records[rec].HTMLContent = ScenarioA =>
             /\ Len(ArticlesOfRecord) = 2
             /\ LET a == ArticlesOfRecord[1]
                    b == ArticlesOfRecord[2]
                IN  /\ a.ArticleNo = <<"yi">> /\ a.TitleLine = <<"di", "yi", "tiao">>
                    /\ a.LineStart = 1 /\ a.LineEnd = 2
                    /\ a.Text = <<"nei", "rong", "yi">>
                    /\ b.ArticleNo = <<"er">> /\ b.TitleLine = <<"di", "er", "tiao">>
                    /\ b.LineStart = 3 /\ b.LineEnd = 4
                    /\ b.Text = <<"nei", "rong", "er">>

\* A file of scenario A followed by a record whose first article has a
\* body of two lines: four Article rows.
C3_Witness ==
    /\ RecordScanned
    /\ rec = 2
    /\ records[1].HTMLContent = ScenarioA
    /\ records[2].HTMLContent = TwoLineBody
    /\ Len(Rows(ws_articles)) = 4
    /\ Len(ArticlesOfRecord) = 2
    /\ ArticlesOfRecord[1].Text = <<"nei", "\n", "nei", "di", "yi", "tiao">>
    /\ ArticlesOfRecord[2].ArticleNo = <<"2">>

\* The segments of the normalized text of record rec, as the Gazette row
\* holds it.
Segments == Split(ws_gazette[rec + 1].HTMLContentText, "\n")

LinesOfRecord == RowsOf(ws_lines, meta_id)

\* C4: every Lines row of a record has a non-empty trimmed text and the
\* 1-based position of its segment in the newline-split of the normalized
\* text; a blank segment takes a line number and gives no row; LineNo is
\* strictly increasing within the record.
C4_LineNumbers ==
    rec >= 1 =>
        /\ \A k \in 1..Len(LinesOfRecord) :
             LET r == LinesOfRecord[k]
             IN  /\ r.Text # <<>>
                 /\ r.Text = Strip(r.Text)
                 /\ r.LineNo \in 1..Len(Segments)
                 /\ r.Text = Strip(Segments[r.LineNo])
                 /\ k > 1 => LinesOfRecord[k - 1].LineNo < r.LineNo
        /\ pc # "lines" =>
             {LinesOfRecord[k].LineNo : k \in 1..Len(LinesOfRecord)}
                = {n \in 1..Len(Segments) : Strip(Segments[n]) # <<>>}

\* A file whose first record normalizes to the empty text (its one blank
\* segment gives no row) and whose second record gives two rows.
C4_Witness ==
    /\ RecordScanned
    /\ rec = 2
    /\ ws_gazette[2].HTMLContentText = <<>>
    /\ RowsOf(ws_lines, ws_gazette[2].MetaId) = <<>>
    /\ Len(LinesOfRecord) = 2
    /\ LinesOfRecord[2].LineNo = 2

----------------------------------------------------------------------------
(* Properties of merge_chinese_lines (SpecMerge). *)

C5_Terminators == {"ju", "fw!", "fw?", "fw;", "fw:", "!", "?", ";", ":"}

\* One step of the generator yields exactly when it should, and what it should.
C5_StepFlushes ==
    pc = "merge" =>
        LET atEnd == merge_pos = Len(lines)
            line == IF atEnd THEN <<>> ELSE Strip(lines[merge_pos + 1])
            blankFlush == ~atEnd /\ line = <<>> /\ buffer # <<>>
            termFlush == ~atEnd /\ line # <<>> /\ line[Len(line)] \in C5_Terminators
            endFlush == atEnd /\ buffer # <<>>
            fragments == IF termFlush THEN Append(buffer, line) ELSE buffer
        IN  IF blankFlush \/ termFlush \/ endFlush
            THEN yielded' = Append(yielded, Flatten(fragments)) /\ buffer' = <<>>
            ELSE yielded' = yielded

\* C5: merge_chinese_lines yields the separator-less join of the buffered
\* trimmed fragments and clears the buffer on a blank line with a non-empty
\* buffer, right after appending a line whose last character is a
\* terminator, and at the end of the input with a non-empty buffer, and at
\* no other point; merge(["yi"]) = ["yi"].
C5_FlushMoments ==
    /\ [](\A k \in 1..Len(buffer) : buffer[k] # <<>> /\ buffer[k] = Strip(buffer[k]))
    /\ []((pc = "merged" /\ lines = << <<"yi">> >>) => yielded = << <<"yi">> >>)
    /\ [][C5_StepFlushes]_vars

\* One input with the three flushes: a blank line after a fragment, a line
\* ending in a terminator, and the end of the input.
C5_Witness ==
    /\ pc = "merged"
    /\ lines = << <<" ", "nei", " ">>, <<>>, <<"nei", "ju">>, <<"yi">> >>
    /\ yielded = << <<"nei">>, <<"nei", "ju">>, <<"yi">> >>

C5_SingleLineWitness ==
    pc = "merged" /\ lines = << <<"yi">> >> /\ yielded = << <<"yi">> >>

----------------------------------------------------------------------------
(* Properties of classify_segment (SpecClassify). *)

\* The rules in their order: <<condition, label>>.
C6_Rules(t, page, seg) ==
    << <<page = 1 /\ seg <= 3, "Header">>,
       <<IsArticleTitle(t), "ArticleTitle">>,
       <<IsItem(t), "Item">>,
       <<IsSubItem(t), "SubItem">>,
       <<TRUE, "Body">> >>

C6_FirstRule(t, page, seg) ==
    LET rules == C6_Rules(t, page, seg)
        first == CHOOSE k \in 1..Len(rules) :
                    rules[k][1] /\ \A j \in 1..(k - 1) : ~rules[j][1]
    IN  rules[first][2]

C6_TitleAndItem ==
    pc = "classified" /\ IsArticleTitle(Strip(cls_text)) /\ IsItem(Strip(cls_text))

----------------------------------------------------------------------------
(* Properties of extract_pdf_to_excel (SpecPdf). *)

PdfRows == Rows(ws_pdf)

ScenarioBDone == pc = "saved" /\ pages = <<ScenarioB>>

\* C7 as stated: the page of scenario B gives three segments on page 1, of
\* types Header, Item and Body.
C7_ScenarioB_AsStated ==
    ScenarioBDone =>
        /\ Len(PdfRows) = 3
        /\ \A k \in 1..3 : PdfRows[k].Page = 1 /\ PdfRows[k].SegmentNo = k
        /\ PdfRows[1].Type = "Header"
        /\ PdfRows[2].Type = "Item"
        /\ PdfRows[3].Type = "Body"

\* C7 (amended): the page of scenario B gives two segments on page 1, both
\* of type Header: the first line has no terminator and is merged with the
\* second, and every segment of page 1 up to the third is a Header.
C7_ScenarioB ==
    ScenarioBDone =>
        /\ Len(PdfRows) = 2
        /\ PdfRows[1] = [Page |-> 1, SegmentNo |-> 1, Type |-> "Header",
                         Text |-> <<"di", "1", "ye", "biao", "ti",
                                    "yi", "dun", "xiang", "mu", "yi", "ju">>]
        /\ PdfRows[2] = [Page |-> 1, SegmentNo |-> 2, Type |-> "Header",
                         Text |-> <<"nei", "wen", "ju">>]

C7_Witness == ScenarioBDone /\ Len(PdfRows) = 2 /\ row_idx = 4

----------------------------------------------------------------------------
(* Properties of html_to_text (SpecHtml). *)

Count(s, c) == Cardinality({i \in 1..Len(s) : s[i] = c})

\* The input holds only <br> tags and plain text: every "<" opens a match of
\* the br pattern, every ">" closes one, and there is no "&" and no newline.
BrOnly(h) ==
    /\ \A i \in 1..Len(h) :
         /\ h[i] = "<" => BrMatchEnd(h, i) > 0
         /\ h[i] = ">" => \E j \in 1..i : h[j] = "<" /\ BrMatchEnd(h, j) = i
         /\ h[i] \notin {"&", "\n", "\r"}

BrCount(h) == Count(h, "<")

LineCount(t) == Count(t, "\n") + 1

\* The texts between the br tags of an input that is BrOnly.
BrSegments(h) == Split(BrToNewline(h), "\n")

NonBlankSegments(h) ==
    Cardinality({k \in 1..Len(BrSegments(h)) : Strip(BrSegments(h)[k]) # <<>>})

----------------------------------------------------------------------------
(* Properties of process_uploaded_files and upload_xml (SpecBatch). *)

\* The failures the claims name, read off the file itself.
UnsupportedExtension(f) ==
    \A e \in { <<".", "x", "m", "l">>, <<".", "z", "i", "p">>, <<".", "p", "d", "f">> } :
        ~EndsWith(LowerStr(f.name), e)

ZipWithoutXml(f) ==
    /\ EndsWith(LowerStr(f.name), <<".", "z", "i", "p">>)
    /\ \A k \in 1..Len(f.namelist) :
         ~EndsWith(LowerStr(f.namelist[k]), <<".", "x", "m", "l">>)

Fails(f) == UnsupportedExtension(f) \/ ZipWithoutXml(f) \/ ~f.readable

FailedUpTo(n) == SelectSeq(SubSeq(files, 1, n), Fails)

SucceededUpTo(n) == SelectSeq(SubSeq(files, 1, n), LAMBDA f : ~Fails(f))

ZipAnswered ==
    IF entry = "process_uploaded_files"
    THEN outcome = "returned" /\ output_path = Some("zip")
    ELSE outcome = "response" /\ output_path = Some("zip")

\* C9: in a batch of two or more files a file that raises becomes one entry
\* of errors and the loop goes on to every later file; each file gives
\* exactly one ZIP entry or exactly one error, so entries + errors is the
\* number of files, and the ZIP is answered whenever a file succeeded.
C9_BatchGoesOn ==
    Len(files) >= 2 =>
        /\ pc = "loop" =>
             /\ outcome = "running"
             /\ Len(zip_entries) + Len(errors) = file_pos
        /\ pc \in {"loop", "done"} =>
             /\ Len(zip_entries) = Len(SucceededUpTo(file_pos))
             /\ [k \in 1..Len(errors) |-> errors[k].name]
                  = [k \in 1..Len(FailedUpTo(file_pos)) |-> FailedUpTo(file_pos)[k].name]
        /\ pc = "done" =>
             /\ file_pos = Len(files)
             /\ Len(zip_entries) + Len(errors) = Len(files)
             /\ outcome # "raised"
             /\ (\E k \in 1..Len(files) : ~Fails(files[k])) => ZipAnswered

\* A batch whose first file fails with an exception that is no ValueError,
\* whose second fails with a ValueError and whose third succeeds.
C9_Witness ==
    /\ pc = "done"
    /\ Len(files) = 3
    /\ ~files[1].readable
    /\ UnsupportedExtension(files[2])
    /\ ~Fails(files[3])
    /\ Len(errors) = 2
    /\ Len(zip_entries) = 1
    /\ ZipAnswered

\* C10 (the claim; the code breaks it): a call of process_uploaded_files
\* whose files all fail returns output_path = None and download name None
\* with the failures in errors, whatever the number of files; output_path is
\* not None only if a file was processed successfully.
C10_AllFailReturnsNone ==
    (entry = "process_uploaded_files" /\ pc = "done") =>
        /\ (\A k \in 1..Len(files) : Fails(files[k])) =>
             /\ outcome = "returned"
             /\ output_path = None
             /\ download_name = None
             /\ Len(errors) >= Len(files)
             /\ errors # <<>>
        /\ output_path # None => \E k \in 1..Len(files) : ~Fails(files[k])

----------------------------------------------------------------------------
(* Page and segment numbers of the PdfText sheet *)

RowsOfPage(p) == SelectSeq(PdfRows, LAMBDA r : r.Page = p)

TextsOfPage(p) == [k \in 1..Len(RowsOfPage(p)) |-> RowsOfPage(p)[k].Text]

\* C11: in extract_pdf_to_excel the rows of every page carry the segment
\* numbers 1..m in row order, restarting at 1 on each page; Page is the
\* 1-based position of the page whose text the row holds; a page whose text
\* is empty or white space gives no row and still takes its page number; a
\* page with text gives at least one row; no row has an empty Text.
C11_PageSegmentNumbers ==
    /\ \A k \in 1..Len(PdfRows) :
         /\ PdfRows[k].Text # <<>>
         /\ PdfRows[k].Page \in 1..page_number
         /\ Strip(pages[PdfRows[k].Page]) # <<>>
    /\ \A p \in 1..Len(pages) :
         \A k \in 1..Len(RowsOfPage(p)) : RowsOfPage(p)[k].SegmentNo = k
    /\ pc = "saved" =>
         \A p \in 1..Len(pages) :
             /\ Strip(pages[p]) = <<>> => RowsOfPage(p) = <<>>
             /\ Strip(pages[p]) # <<>> => RowsOfPage(p) # <<>>
             /\ Flatten(TextsOfPage(p)) = Flatten(RawLines(pages[p]))

\* Three pages, the second of white space only: pages 1 and 3 each give the
\* segments 1 and 2, page 2 gives none.
C11_Witness ==
    /\ pc = "saved"
    /\ pages = ThreePages
    /\ Len(PdfRows) = 4
    /\ [k \in 1..4 |-> PdfRows[k].Page] = <<1, 1, 3, 3>>
    /\ [k \in 1..4 |-> PdfRows[k].SegmentNo] = <<1, 2, 1, 2>>

----------------------------------------------------------------------------
(* html_to_text on plain text *)

IsPlain(x) == \A i \in 1..Len(x) : x[i] \notin {"<", ">", "&"}

\* C12: for an input x with no "<", ">" or "&", html_to_text applied to the
\* text that html_to_text returned for x gives that text again.
C12_IdempotentOnPlain ==
    (pc = "returned" /\ IsPlain(html)) => html_to_text(text) = text

\* A plain input with a carriage return, a newline and a tab between two
\* letters: the call changed it, and a second call changes nothing more.
C12_Witness ==
    /\ pc = "returned"
    /\ html = <<"a", "\r", "\n", "\t", "a">>
    /\ text = <<"a", "\n", "a">>
    /\ html_to_text(text) = text

----------------------------------------------------------------------------
(* Row order of the four sheets.  SpecRows runs either extract_to_excel or   *)
(* extract_pdf_to_excel: one call of either function is one behaviour.       *)

InitRows == Init \/ InitPdf

NextRows == Next \/ NextPdf

SpecRows == InitRows /\ [][NextRows]_vars

\* position in the XML file of the record with MetaId m
RecordOf(m) == CHOOSE i \in 1..Len(records) : get_text(records[i], "MetaId") = m

\* row r stands before row q: an earlier record, or the same record and a
\* smaller number in column col
Before(r, q, col) ==
    \/ RecordOf(r.MetaId) < RecordOf(q.MetaId)
    \/ RecordOf(r.MetaId) = RecordOf(q.MetaId) /\ r[col] < q[col]

C13_RowOrder ==
    /\ DOMAIN ws_gazette = 2..(rec + 1)
    /\ \A i \in 1..rec :
         /\ ws_gazette[i + 1].MetaId = get_text(records[i], "MetaId")
         /\ ws_gazette[i + 1].GazetteId = get_text(records[i], "GazetteId")
    /\ DOMAIN ws_lines = 2..(lines_row_idx - 1)
    /\ \A r \in 2..(lines_row_idx - 2) :
         Before(ws_lines[r], ws_lines[r + 1], "LineNo")
    /\ DOMAIN ws_articles = 2..(articles_row_idx - 1)
    /\ \A r \in 2..(articles_row_idx - 2) :
         Before(ws_articles[r], ws_articles[r + 1], "LineStart")
    /\ DOMAIN ws_pdf = 2..(row_idx - 1)
    /\ \A r \in 2..(row_idx - 2) :
         \/ ws_pdf[r].Page < ws_pdf[r + 1].Page
         \/ /\ ws_pdf[r].Page = ws_pdf[r + 1].Page
            /\ ws_pdf[r].SegmentNo < ws_pdf[r + 1].SegmentNo

\* A step leaves sheet ws and its row index alone, or writes the one row idx,
\* which was free, keeps every other row and moves the index on by one.
AppendsRow(ws, wsNext, idx, idxNext) ==
    \/ wsNext = ws /\ idxNext = idx
    \/ /\ idx \notin DOMAIN ws
       /\ DOMAIN wsNext = (DOMAIN ws) \cup {idx}
       /\ \A r \in DOMAIN ws : wsNext[r] = ws[r]
       /\ idxNext = idx + 1

C13_StepAppends ==
    /\ AppendsRow(ws_gazette, ws_gazette', rec + 2, rec' + 2)
    /\ AppendsRow(ws_lines, ws_lines', lines_row_idx, lines_row_idx')
    /\ AppendsRow(ws_articles, ws_articles', articles_row_idx, articles_row_idx')
    /\ AppendsRow(ws_pdf, ws_pdf', row_idx, row_idx')

\* C13: the Gazette sheet holds record i at row i + 1; the Lines rows are in
\* record order and, within a record, in ascending LineNo; the Articles rows
\* are in record order and, within a record, in ascending LineStart; the
\* PdfText rows are in ascending page and, within a page, ascending
\* SegmentNo; every sheet fills the rows 2, 3, ... without a gap, and every
\* step that writes a row writes the free row at the running index, changes
\* no other row and moves the index on by one.
C13_RowsInTraversalOrder ==
    /\ []C13_RowOrder
    /\ [][C13_StepAppends]_vars

\* A saved file of two records, each with Lines rows and an Articles row.
C13_Witness ==
    /\ pc = "saved"
    /\ Len(records) = 2
    /\ DOMAIN ws_gazette = 2..3
    /\ \E r \in 2..(lines_row_idx - 3) :
         /\ RecordOf(ws_lines[r].MetaId) = 1
         /\ RecordOf(ws_lines[r + 1].MetaId) = 1
         /\ RecordOf(ws_lines[r + 2].MetaId) = 2
    /\ articles_row_idx >= 5
    /\ RecordOf(ws_articles[2].MetaId) = 1
    /\ RecordOf(ws_articles[articles_row_idx - 1].MetaId) = 2

\* A saved PDF file with rows of two pages.
C13_PdfWitness ==
    /\ pc = "saved"
    /\ pages = ThreePages
    /\ DOMAIN ws_pdf = 2..5

----------------------------------------------------------------------------
(* Tags and entities in html_to_text *)

\* s holds sub from index i on
OccursAt(s, sub, i) ==
    i + Len(sub) - 1 <= Len(s) /\ \A k \in 1..Len(sub) : s[i + k - 1] = sub[k]

Occurs(s, sub) == \E i \in 1..Len(s) : OccursAt(s, sub, i)

EncodedB == <<"&", "l", "t", ";", "b", "&", "g", "t", ";">>

LiteralB == <<"<", "b", ">">>

\* A span <...> opens at i: "<", at least one character, and the next ">".
SpanAt(s, i) ==
    /\ s[i] = "<"
    /\ \E j \in (i + 2)..Len(s) :
         s[j] = ">" /\ \A k \in (i + 1)..(j - 1) : s[k] # ">"

NoSpan(s) == \A i \in 1..Len(s) : ~SpanAt(s, i)

\* the spans of s with no angle bracket inside
InnerSpans(s) ==
    {i \in 1..Len(s) :
        /\ s[i] = "<"
        /\ \E j \in (i + 2)..Len(s) :
             s[j] = ">" /\ \A k \in (i + 1)..(j - 1) : s[k] \notin {"<", ">"}}

NoAngle(s) == \A i \in 1..Len(s) : s[i] \notin {"<", ">"}

C14_RealTagWitness ==
    /\ pc = "returned"
    /\ html = LiteralB \o <<"a">> \o LiteralB
    /\ text = <<"a">>

----------------------------------------------------------------------------
(* Blank lines of the normalized text.  SpecNormalized runs either one call  *)
(* of html_to_text or one call of extract_to_excel.                          *)

InitNormalized == InitHtml \/ Init

NextNormalized == NextHtml \/ Next

SpecNormalized == InitNormalized /\ [][NextNormalized]_vars

\* the text is empty, or each of its newline-separated segments holds a
\* character that is no white space
NoBlankLine(t) ==
    t = <<>> \/ \A k \in 1..Len(Split(t, "\n")) : Strip(Split(t, "\n")[k]) # <<>>

BlankBetween ==
    Join(Br, << <<"di", "yi", "tiao">>, <<" ">>, <<"nei">>, <<" ">> >>)

\* C15: the text html_to_text returns has no blank line: it is empty, or
\* every segment of its split at newlines is non-empty.  So in
\* extract_to_excel the Lines rows of every record carry the line numbers
\* 1, 2, ... n in row order, n the number of segments of a non-empty text,
\* and every Articles row spans exactly its title line and its body lines:
\* LineEnd - LineStart is the number of lines of its Text.
C15_NoBlankLine ==
    /\ pc = "returned" => NoBlankLine(text)
    /\ \A i \in 1..rec :
         LET t == ws_gazette[i + 1].HTMLContentText
             rows == RowsOf(ws_lines, ws_gazette[i + 1].MetaId)
         IN  /\ NoBlankLine(t)
             /\ \A k \in 1..Len(rows) : rows[k].LineNo = k
             /\ (i < rec \/ pc \in {"scan", "record", "saved"}) =>
                    Len(rows) = IF t = <<>> THEN 0 ELSE Len(Split(t, "\n"))
    /\ \A r \in DOMAIN ws_articles :
         ws_articles[r].LineEnd - ws_articles[r].LineStart
             = Len(Split(ws_articles[r].Text, "\n"))

\* A saved record whose HTMLContent has a line of white space between the
\* title and the body and a trailing one: two Lines rows, numbered 1 and 2,
\* and one Articles row from line 1 to line 2.
C15_Witness ==
    /\ pc = "saved"
    /\ Len(records) = 1
    /\ records[1].HTMLContent = BlankBetween
    /\ DOMAIN ws_lines = 2..3
    /\ ws_lines[2].LineNo = 1 /\ ws_lines[3].LineNo = 2
    /\ DOMAIN ws_articles = {2}
    /\ ws_articles[2].LineStart = 1 /\ ws_articles[2].LineEnd = 2

\* html_to_text has returned two lines for a text with two <br> tags in a row.
C15_HtmlWitness ==
    /\ pc = "returned"
    /\ html = <<"a">> \o Br \o Br \o <<"a">>
    /\ text = <<"a", "\n", "a">>

----------------------------------------------------------------------------
(* The article scan starts afresh with every record *)

\* the trimmed lines of the normalized text of record i
LinesOfText(i) ==
    LET segs == Split(ws_gazette[i + 1].HTMLContentText, "\n")
    IN  [k \in 1..Len(segs) |-> Strip(segs[k])]

IsBoundary(t) == article_pattern(t) # None

\* the boundary lines of record i that a body line follows
BoundariesWithBody(i) ==
    {k \in 1..(Len(LinesOfText(i)) - 1) :
        IsBoundary(LinesOfText(i)[k]) /\ ~IsBoundary(LinesOfText(i)[k + 1])}

\* the scan of record i is over
ScanOver(i) == i < rec \/ (i = rec /\ pc \in {"record", "saved"})

\* row r holds a title line of record i and the body lines that follow it in
\* record i, with their line numbers
WithinRecord(r, i) ==
    LET ls == LinesOfText(i)
    IN  /\ r.MetaId = ws_gazette[i + 1].MetaId
        /\ r.GazetteId = ws_gazette[i + 1].GazetteId
        /\ r.LineStart \in 1..Len(ls)
        /\ r.LineEnd \in r.LineStart..Len(ls)
        /\ r.TitleLine = ls[r.LineStart]
        /\ article_pattern(r.TitleLine) = Some(r.ArticleNo)
        /\ \A k \in (r.LineStart + 1)..r.LineEnd : ~IsBoundary(ls[k])
        /\ r.Text = Strip(Join(<<"\n">>,
               [k \in 1..(r.LineEnd - r.LineStart) |-> ls[r.LineStart + k]]))

\* C16: the article scan of every record starts with no current article, no
\* title, no start line, no body lines and no last line; until the first
\* boundary line of the record no article is current; every Articles row
\* holds the MetaId and GazetteId of one record, a title line of that record
\* and the body lines that follow it in that record, with their line
\* numbers; and once the scan of record i is over the sheet holds one row
\* for each boundary line of record i that a body line follows, and no other
\* row of record i, whatever the later records hold.
C16_ScanResetPerRecord ==
    /\ (pc = "scan" /\ scan_pos = 0) =>
         /\ current_article_no = None /\ current_title_line = None
         /\ current_start_line = None /\ current_lines = <<>>
         /\ last_line_no = None
    /\ (pc = "scan" /\ \A k \in 1..scan_pos : ~IsBoundary(non_empty_lines[k][2])) =>
         current_article_no = None /\ current_lines = <<>>
    /\ \A r \in DOMAIN ws_articles :
         WithinRecord(ws_articles[r], RecordOf(ws_articles[r].MetaId))
    /\ \A i \in 1..rec :
         ScanOver(i) =>
             Len(RowsOf(ws_articles, ws_gazette[i + 1].MetaId))
                 = Cardinality(BoundariesWithBody(i))

\* A saved file of two records: the first ends in a boundary line with no
\* body, the second holds two body lines and no boundary line.  The open
\* article was dropped and the lines of the second record went to no
\* article.
C16_Witness ==
    /\ pc = "saved"
    /\ Len(records) = 2
    /\ LinesOfText(1) = << <<"di", "yi", "tiao">> >>
    /\ LinesOfText(2) = << <<"nei">>, <<"nei">> >>
    /\ ws_articles = <<>>

\* A saved file of two records: the article of the first was written at its
\* end; the second starts with a body line and ends in a boundary line.
C16_EmittedWitness ==
    /\ pc = "saved"
    /\ Len(records) = 2
    /\ LinesOfText(1) = << <<"di", "yi", "tiao">>, <<"nei">> >>
    /\ LinesOfText(2) = << <<"nei">>, <<"di", "yi", "tiao">> >>
    /\ DOMAIN ws_articles = {2}
    /\ ws_articles[2].MetaId = ws_gazette[2].MetaId

----------------------------------------------------------------------------
(* merge_chinese_lines keeps the text *)

\* the trimmed non-blank lines among the first n input lines
TrimmedLines(n) ==
    SelectSeq([i \in 1..n |-> Strip(lines[i])], LAMBDA ln : ln # <<>>)

\* the trimmed line i ends in a terminator
EndsInTerminator(i) ==
    LET ln == Strip(lines[i]) IN ln # <<>> /\ ln[Len(ln)] \in end_punct

\* C17: at every point of merge_chinese_lines the paragraphs yielded so far,
\* followed by the buffered fragments, spell the trimmed non-blank lines
\* read so far, so at the end the yielded paragraphs spell all of them; no
\* yielded paragraph is empty; right after a line whose trimmed text ends in
\* a terminator the buffer is empty and the last yielded paragraph ends with
\* that line, and at the end the paragraphs up to some paragraph spell the
\* lines up to that line.
C17_MergeKeepsText ==
    pc \in {"merge", "merged"} =>
        /\ Flatten(yielded) \o Flatten(buffer) = Flatten(TrimmedLines(merge_pos))
        /\ pc = "merged" =>
             /\ buffer = <<>>
             /\ merge_pos = Len(lines)
             /\ Flatten(yielded) = Flatten(TrimmedLines(Len(lines)))
        /\ \A k \in 1..Len(yielded) : yielded[k] # <<>>
        /\ (merge_pos >= 1 /\ EndsInTerminator(merge_pos)) =>
             /\ buffer = <<>>
             /\ yielded # <<>>
             /\ EndsWith(yielded[Len(yielded)], Strip(lines[merge_pos]))
        /\ pc = "merged" =>
             \A i \in 1..Len(lines) :
                 EndsInTerminator(i) =>
                     \E j \in 1..Len(yielded) :
                         Flatten(SubSeq(yielded, 1, j)) = Flatten(TrimmedLines(i))

\* Four lines: a fragment, a line ending in a terminator, a blank line and a
\* last fragment.  The first two lines are one paragraph, which ends with the
\* terminator line; the last line is a paragraph of its own.
C17_Witness ==
    /\ pc = "merged"
    /\ lines = << <<" ", "nei", " ">>, <<"nei", "ju">>, <<" ">>, <<"yi">> >>
    /\ yielded = << <<"nei", "nei", "ju">>, <<"yi">> >>

----------------------------------------------------------------------------
(* Line ranges of the Articles rows *)

\* C18: in the article scan, while an article is current, its start line is
\* at most the last line seen; every Articles row has LineStart < LineEnd;
\* of two rows of one record that follow each other in the sheet the first
\* ends before the second starts, so the ranges of a record are pairwise
\* disjoint and increase in the order of emission.
C18_LineRanges ==
    /\ (pc = "scan" /\ current_article_no # None) =>
         /\ current_start_line # None
         /\ last_line_no # None
         /\ current_start_line[1] <= last_line_no[1]
    /\ \A r \in DOMAIN ws_articles : ws_articles[r].LineStart < ws_articles[r].LineEnd
    /\ \A r, q \in DOMAIN ws_articles :
         (r < q /\ ws_articles[r].MetaId = ws_articles[q].MetaId) =>
             ws_articles[r].LineEnd < ws_articles[q].LineStart

\* A saved record with two articles: lines 1 to 3 and lines 4 to 5.
C18_Witness ==
    /\ pc = "saved"
    /\ records = <<Record("1", TwoLineBody)>>
    /\ [r \in DOMAIN ws_articles |-> <<ws_articles[r].LineStart, ws_articles[r].LineEnd>>]
         = [r \in 2..3 |-> IF r = 2 THEN <<1, 3>> ELSE <<4, 5>>]

\* In the scan a title line has just been read: the current article starts
\* and ends at that line until a body line follows.
C18_TitleOnlyWitness ==
    /\ pc = "scan"
    /\ current_article_no # None
    /\ current_lines = <<>>
    /\ current_start_line = last_line_no

----------------------------------------------------------------------------
(* Names in the result ZIP *)

\* the download name process_single_file gave the k-th file written to the ZIP
NaturalName(k) == process_single_file(SucceededUpTo(file_pos)[k]).download_name

\* the archive names written before the k-th
EarlierNames(k) == {zip_entries[j] : j \in 1..(k - 1)}

\* base_i.ext of the download name n
Numbered(n, i) == Splitext(n)[1] \o <<"_">> \o Decimal(i) \o Splitext(n)[2]

\* the branch of several files, which writes the ZIP
InZipLoop == pc \in {"loop", "done"} /\ Len(files) >= 2

DistinctNames ==
    /\ Len(zip_entries) = Len(SucceededUpTo(file_pos))
    /\ \A j, k \in 1..Len(zip_entries) : j # k => zip_entries[j] # zip_entries[k]
    /\ seen_names = {zip_entries[k] : k \in 1..Len(zip_entries)}

\* C19 as stated: the archive names are pairwise distinct, and the first file
\* with a given download name is written under that name.
C19_ZipNames_AsStated ==
    InZipLoop =>
        /\ DistinctNames
        /\ \A k \in 1..Len(zip_entries) :
             (\A j \in 1..(k - 1) : NaturalName(j) # NaturalName(k)) =>
                 zip_entries[k] = NaturalName(k)

\* C19 (amended): the archive names are pairwise distinct; a file is written
\* under its download name when no earlier archive name, kept or generated,
\* equals it, and otherwise under base_i.ext for the least i >= 2 that gives
\* a name not yet in the archive; the k-th file written takes i <= k, so the
\* renaming loop ends after at most k - 1 rounds.
C19_ZipNames ==
    InZipLoop =>
        /\ DistinctNames
        /\ \A k \in 1..Len(zip_entries) :
             IF NaturalName(k) \notin EarlierNames(k)
             THEN zip_entries[k] = NaturalName(k)
             ELSE \E i \in 2..k :
                    /\ zip_entries[k] = Numbered(NaturalName(k), i)
                    /\ zip_entries[k] \notin EarlierNames(k)
                    /\ \A h \in 2..(i - 1) :
                         Numbered(NaturalName(k), h) \in EarlierNames(k)

\* The uploads a.xml, a.xml and a_2.xml: the second is renamed to a_2.xlsx,
\* so the third, the first file with the download name a_2.xlsx, is written as
\* a_2_2.xlsx.
C19_Witness ==
    /\ pc = "done"
    /\ [k \in 1..Len(files) |-> files[k].name]
         = << <<"a", ".", "x", "m", "l">>, <<"a", ".", "x", "m", "l">>,
              <<"a", "_", "2", ".", "x", "m", "l">> >>
    /\ zip_entries
         = << <<"a">> \o Xlsx, <<"a", "_", "2">> \o Xlsx,
              <<"a", "_", "2", "_", "2">> \o Xlsx >>

----------------------------------------------------------------------------
(* Order of the entity replacements *)

Amp == <<"&", "a", "m", "p", ";">>
Nbsp == <<"&", "n", "b", "s", "p", ";">>
Lt == <<"&", "l", "t", ";">>
Gt == <<"&", "g", "t", ";">>

\* the entities and their replacements, in the order of the four steps
EntityOrder == << <<Nbsp, <<" ">> >>, <<Amp, <<"&">> >>, <<Lt, <<"<">> >>, <<Gt, <<">">> >> >>

\* the first n replacements of EntityOrder, each over the whole text the one
\* before it left
RECURSIVE InOrder(_, _)
InOrder(s, n) ==
    IF n = 0 THEN s
    ELSE Replace(InOrder(s, n - 1), EntityOrder[n][1], EntityOrder[n][2])

\* C20: the entity stage of html_to_text is the four literal replacements
\* &nbsp;, &amp;, &lt;, &gt; in this order, each over the whole text the one
\* before it left.  So "&amp;lt;" returns "<" and "&amp;nbsp;" returns
\* "&nbsp;"; after the stage the text holds no "&lt;" and no "&gt;", and an
\* "&nbsp;" or "&amp;" it holds came out of an "&amp;" of the text the stage
\* was given.
C20_SequentialEntities ==
    /\ (pc = "returned" /\ html = Amp \o <<"l", "t", ";">>) => text = <<"<">>
    /\ (pc = "returned" /\ html = Amp \o <<"n", "b", "s", "p", ";">>) => text = Nbsp
    /\ pc = "blanks" =>
         /\ text = InOrder(StripTags(BrToNewline(html)), 4)
         /\ ~Occurs(text, Lt) /\ ~Occurs(text, Gt)
         /\ (Occurs(text, Nbsp) \/ Occurs(text, Amp)) =>
                Occurs(StripTags(BrToNewline(html)), Amp)

\* html_to_text has returned "<" for "&amp;lt;".
C20_Witness ==
    /\ pc = "returned"
    /\ html = Amp \o <<"l", "t", ";">>
    /\ text = <<"<">>

\* html_to_text has returned "&nbsp;" for "&amp;nbsp;".
C20_NbspWitness ==
    /\ pc = "returned"
    /\ html = Amp \o <<"n", "b", "s", "p", ";">>
    /\ text = Nbsp

====
